---- MODULE Spec2Model ----
(***************************************************************************)
(* Model of wren-core-py/src/context.rs: the PySessionContext facade.      *)
(*   - PySessionContext::new            (construction, function registry)  *)
(*   - transform_sql, get_available_functions, pushdown_limit              *)
(* SQL text is modelled as what the parser returns for it (a sequence of   *)
(* statements, or a parse failure) together with what the parser forgets   *)
(* (the formatting style); two texts are the same bytes iff the records    *)
(* are equal.  Serialising a statement always yields canonical formatting. *)
(***************************************************************************)
EXTENDS Integers, Sequences, FiniteSets

VARIABLES self, construction, call

vars == <<self, construction, call>>

(***************************************************************************)
(* Bounds of the model.                                                    *)
(***************************************************************************)
\* usize is modelled UsizeBits wide, so that a literal of at most MaxLitLen
\* characters can exceed it (TLC's integers are narrower than 64 bits).
UsizeBits == 4
\* longest numeric literal text of a LIMIT clause
MaxLitLen == 2
\* largest pushdown ceiling a caller supplies
MaxCeiling == 11
\* most rows of the remote-function CSV file
MaxRows == 2

UsizeMax == 2 ^ UsizeBits - 1

(***************************************************************************)
(* Option and Result values.                                               *)
(***************************************************************************)
None == [some |-> FALSE]
Some(x) == [some |-> TRUE, v |-> x]

Ok(x) == [outcome |-> "ok", v |-> x]
Err(e) == [outcome |-> "err", error |-> e]
\* an unwinding panic, caught at the binding boundary: no value and no CoreError
Panic == [outcome |-> "panic"]
Pending == [outcome |-> "pending"]

(***************************************************************************)
(* Decimal text of integers: usize::to_string and str::parse::<usize>.     *)
(***************************************************************************)
Digits == <<"0", "1", "2", "3", "4", "5", "6", "7", "8", "9">>

IsDigit(c) == \E i \in 1..10 : Digits[i] = c

DigitVal(c) == (CHOOSE i \in 1..10 : Digits[i] = c) - 1

RECURSIVE UsizeToString(_)
UsizeToString(n) ==
    IF n < 10 THEN <<Digits[n + 1]>>
    ELSE Append(UsizeToString(n \div 10), Digits[(n % 10) + 1])

\* str::parse::<usize>: every character must be a decimal digit, the text must
\* not be empty, and the value must fit (checked multiply and add).
RECURSIVE ParseDigits(_, _)
ParseDigits(s, acc) ==
    IF s = <<>> THEN Ok(acc)
    ELSE IF ~IsDigit(Head(s)) THEN Err("InvalidDigit")
    ELSE LET next == acc * 10 + DigitVal(Head(s)) IN
         IF next > UsizeMax THEN Err("PosOverflow")
         ELSE ParseDigits(Tail(s), next)

ParseUsize(s) == IF s = <<>> THEN Err("Empty") ELSE ParseDigits(s, 0)

(***************************************************************************)
(* The SQL syntax tree, as far as the rewriter looks at it.                *)
(***************************************************************************)
\* a LIMIT expression: Expr::Value(Value::Number(n, is)), or any other Expr
Number(n, is) == [k |-> "number", n |-> n, is |-> is]
OtherExpr(e) == [k |-> "expr", e |-> e]

\* a query block: its LIMIT (Option<Expr>) and the subquery of its FROM, if any
Query(limit, subquery) == [limit |-> limit, subquery |-> subquery]

StatementQuery(q) == [type |-> "Query", query |-> q]
StatementExplain(s) == [type |-> "Explain", statement |-> s]
StatementInsert(q) == [type |-> "Insert", source |-> q]
StatementDrop == [type |-> "Drop"]

\* SQL text: unparseable, or the statements it parses to plus its formatting
Unparseable == [kind |-> "unparseable"]
SqlText(stmts, style) == [kind |-> "sql", stmts |-> stmts, style |-> style]

\* Parser::parse_sql(&GenericDialect {}, sql)
ParseSql(sql) ==
    IF sql.kind = "unparseable" THEN Err("ParserError") ELSE Ok(sql.stmts)

\* Statement::to_string()
StatementToString(stmt) == SqlText(<<stmt>>, "canonical")

(***************************************************************************)
(* pushdown_limit                                                          *)
(***************************************************************************)
\* The closure passed to visit_statements_mut.  Yields the rewritten statement,
\* or Panic when unwrap() meets a literal that is not a usize.
ClosureNoInject(stmt, pushdown) ==
    IF stmt.type = "Query" THEN
        LET limit == stmt.query.limit IN
        IF limit.some THEN
            IF limit.v.k = "number" THEN
                LET parsed == ParseUsize(limit.v.n) IN
                IF parsed.outcome # "ok" THEN Panic
                ELSE IF parsed.v > pushdown THEN
                    Ok([stmt EXCEPT !.query.limit =
                            Some(Number(UsizeToString(pushdown), limit.v.is))])
                ELSE Ok(stmt)
            ELSE Ok(stmt)
        ELSE Ok(stmt)
    ELSE Ok(stmt)

ClosureLessThan(stmt, pushdown) ==
    IF stmt.type = "Query" THEN
        LET limit == stmt.query.limit IN
        IF limit.some THEN
            IF limit.v.k = "number" THEN
                LET parsed == ParseUsize(limit.v.n) IN
                IF parsed.outcome # "ok" THEN Panic
                ELSE IF parsed.v < pushdown THEN
                    Ok([stmt EXCEPT !.query.limit =
                            Some(Number(UsizeToString(pushdown), limit.v.is))])
                ELSE Ok(stmt)
            ELSE Ok(stmt)
        ELSE Ok([stmt EXCEPT !.query.limit =
                    Some(Number(UsizeToString(pushdown), FALSE))])
    ELSE Ok(stmt)

Closure(stmt, pushdown) ==
    IF stmt.type = "Query" THEN
        LET limit == stmt.query.limit IN
        IF limit.some THEN
            IF limit.v.k = "number" THEN
                LET parsed == ParseUsize(limit.v.n) IN
                IF parsed.outcome # "ok" THEN Panic
                ELSE IF parsed.v > pushdown THEN
                    Ok([stmt EXCEPT !.query.limit =
                            Some(Number(UsizeToString(pushdown), limit.v.is))])
                ELSE Ok(stmt)
            ELSE Ok(stmt)
        ELSE Ok([stmt EXCEPT !.query.limit =
                    Some(Number(UsizeToString(pushdown), FALSE))])
    ELSE Ok(stmt)

\* visit_statements_mut on one statement: the closure runs on the statement
\* first (pre-visit), then on the statements nested in it.  Only Statement
\* nodes are visited: a Query nested in a Query or in an INSERT is not one.
RECURSIVE VisitStatement(_, _)
VisitStatement(stmt, pushdown) ==
    LET visited == Closure(stmt, pushdown) IN
    IF visited.outcome # "ok" THEN visited
    ELSE IF visited.v.type = "Explain" THEN
        LET inner == VisitStatement(visited.v.statement, pushdown) IN
        IF inner.outcome # "ok" THEN inner
        ELSE Ok([visited.v EXCEPT !.statement = inner.v])
    ELSE visited

\* visit_statements_mut(&mut statements, ..) over the parsed Vec<Statement>
RECURSIVE VisitStatementsMut(_, _)
VisitStatementsMut(statements, pushdown) ==
    IF statements = <<>> THEN Ok(<<>>)
    ELSE LET first == VisitStatement(Head(statements), pushdown) IN
         IF first.outcome # "ok" THEN first
         ELSE LET rest == VisitStatementsMut(Tail(statements), pushdown) IN
              IF rest.outcome # "ok" THEN rest
              ELSE Ok(<<first.v>> \o rest.v)

\* the body of pushdown_limit once a ceiling is known to be supplied
RewriteFirstStatement(sql, pushdown) ==
    LET statements == ParseSql(sql) IN
    IF statements.outcome # "ok" THEN Err("SqlParseError")
    ELSE IF Len(statements.v) < 1 THEN Err("Only one statement is allowed")
    ELSE LET visited == VisitStatementsMut(statements.v, pushdown) IN
         IF visited.outcome # "ok" THEN visited
         ELSE Ok(StatementToString(visited.v[1]))

Rewrite(sql, pushdown) ==
    LET statements == ParseSql(sql) IN
    IF statements.outcome # "ok" THEN Err("SqlParseError")
    ELSE IF Len(statements.v) # 1 THEN Err("Only one statement is allowed")
    ELSE LET visited == VisitStatementsMut(statements.v, pushdown) IN
         IF visited.outcome # "ok" THEN visited
         ELSE Ok(StatementToString(visited.v[1]))

PushdownLimitAlwaysRewrite(sql, limit) ==
    Rewrite(sql, IF limit.some THEN limit.v ELSE UsizeMax)

PushdownLimit(sql, limit) ==
    IF ~limit.some THEN Ok(sql)
    ELSE Rewrite(sql, limit.v)

(***************************************************************************)
(* Remote functions and the engine session's function registry.            *)
(***************************************************************************)
FunctionTypes == {"Scalar", "Aggregate", "Window"}

\* FunctionType's display form, as PyRemoteFunction.function_type holds it
FunctionTypeToString(t) ==
    CASE t = "Scalar" -> "scalar"
      [] t = "Aggregate" -> "aggregate"
      [] t = "Window" -> "window"

\* From<RemoteFunction> for PyRemoteFunction: the introspection view of a
\* remote function; the declared return type becomes a known (Some) one
IntoPy(f) ==
    [function_type |-> FunctionTypeToString(f.function_type),
     name |-> f.name,
     return_type |-> Some(f.return_type),
     param_names |-> f.param_names,
     param_types |-> f.param_types,
     description |-> f.description]

\* From<PyRemoteFunction> for RemoteFunction: a row of the CSV file, typed
FromPy(row) ==
    [function_type |-> CHOOSE t \in FunctionTypes :
                           FunctionTypeToString(t) = row.function_type,
     name |-> row.name,
     return_type |-> row.return_type.v,
     param_names |-> row.param_names,
     param_types |-> row.param_types,
     description |-> row.description]

\* map_data_type: the engine's native type of a declared return type, or an
\* error for a descriptor the engine's type system does not have
MapDataType(return_type) ==
    CASE return_type = "int" -> Ok("Int32")
      [] return_type = "varchar" -> Ok("Utf8")
      [] OTHER -> Err("FunctionTypeMappingError")

Builtin == [impl |-> "builtin"]
\* ByPassScalarUDF::new / ByPassAggregateUDF::new / ByPassWindowFunction::new
ByPass(name, return_type) ==
    [impl |-> "bypass", name |-> name, return_type |-> return_type]

\* HashMap::insert on one kind's name -> implementation map
Insert(map, name, value) ==
    [n \in DOMAIN map \cup {name} |-> IF n = name THEN value ELSE map[n]]

\* wren_core::SessionContext::new(): a session with the engine's own functions.
\* "first_value" is registered both as an aggregate and as a window function.
SessionContextNew ==
    [scalar |-> [n \in {"abs"} |-> Builtin],
     aggregate |-> [n \in {"first_value"} |-> Builtin],
     window |-> [n \in {"first_value"} |-> Builtin]]

DefaultMdl == [manifest |-> "default"]

\* to_manifest: base64 and JSON decoding of the manifest string
ToManifest(mdl_base64) ==
    IF mdl_base64 = "not_base64" THEN Err("ManifestDecodeError")
    ELSE Ok(mdl_base64)

\* AnalyzedWrenMDL::analyze
Analyze(manifest) ==
    IF manifest = "invalid_manifest" THEN Err("analyze")
    ELSE Ok([manifest |-> manifest])

\* create_ctx_with_mdl: a new session bound to the model; it keeps the
\* functions of the session it is derived from
CreateCtxWithMdl(ctx, analyzed_mdl) ==
    IF analyzed_mdl.manifest = "unbindable_manifest" THEN Err("EngineInitError")
    ELSE Ok(ctx)

\* register_remote_function: one pass-through callable of the function's kind,
\* or the mapping error of its return type (nothing registered)
RegisterRemoteFunction(ctx, remote_function) ==
    LET data_type == MapDataType(remote_function.return_type) IN
    IF data_type.outcome # "ok" THEN Err(data_type.error)
    ELSE LET udf == ByPass(remote_function.name, data_type.v) IN
         CASE remote_function.function_type = "Scalar" ->
                  Ok([ctx EXCEPT !.scalar = Insert(@, remote_function.name, udf)])
           [] remote_function.function_type = "Aggregate" ->
                  Ok([ctx EXCEPT !.aggregate = Insert(@, remote_function.name, udf)])
           [] remote_function.function_type = "Window" ->
                  Ok([ctx EXCEPT !.window = Insert(@, remote_function.name, udf)])

\* remote_functions.iter().try_for_each(register): in list order, stopping at
\* the first error.  Yields the session and the names registered so far.
RECURSIVE RegisterAll(_, _, _)
RegisterAll(ctx, remote_functions, registered) ==
    IF remote_functions = <<>>
    THEN [outcome |-> "ok", v |-> ctx, registered |-> registered]
    ELSE LET r == RegisterRemoteFunction(ctx, Head(remote_functions)) IN
         IF r.outcome # "ok"
         THEN [outcome |-> "err", error |-> r.error, registered |-> registered]
         ELSE RegisterAll(r.v, Tail(remote_functions),
                          Append(registered, <<"register", Head(remote_functions).name>>))

\* read_remote_function_list: no path, no functions; an unreadable file is an
\* error; rows that do not deserialize are dropped
IsOkRow(row) == row.outcome = "ok"

RowValue(rows) == [i \in 1..Len(rows) |-> rows[i].v]

ReadRemoteFunctionList(path) ==
    IF path.some THEN
        IF ~path.v.readable THEN Err("CsvError")
        ELSE Ok(RowValue(SelectSeq(path.v.rows, IsOkRow)))
    ELSE Ok(<<>>)

(***************************************************************************)
(* PySessionContext::new                                                   *)
(***************************************************************************)
\* The constructor's outcome: the context or the error, with the calls it made
\* in order (trace).  runtime_ok: whether tokio's Runtime::new() succeeds.
Constructed(ctx, mdl, remote_functions) ==
    [built |-> TRUE, ctx |-> ctx, mdl |-> mdl, remote_functions |-> remote_functions]

NewDecodeFallback(mdl_base64, remote_functions_path, runtime_ok) ==
    LET read == ReadRemoteFunctionList(remote_functions_path)
        t1 == << <<"read_remote_function_list">> >>
    IN
    IF read.outcome # "ok" THEN [result |-> Err(read.error), trace |-> t1]
    ELSE
    LET remote_functions == [i \in 1..Len(read.v) |-> FromPy(read.v[i])]
        ctx == SessionContextNew
        t2 == Append(t1, <<"SessionContext::new">>)
    IN
    IF ~mdl_base64.some
    THEN [result |-> Ok(Constructed(ctx, DefaultMdl, remote_functions)), trace |-> t2]
    ELSE
    LET manifest == ToManifest(mdl_base64.v)
        t3 == Append(t2, <<"to_manifest">>)
    IN
    IF manifest.outcome # "ok"
    THEN [result |-> Ok(Constructed(ctx, DefaultMdl, remote_functions)), trace |-> t3]
    ELSE
    LET analyzed_mdl == Analyze(manifest.v)
        t4 == Append(t3, <<"analyze">>)
    IN
    IF analyzed_mdl.outcome # "ok"
    THEN [result |-> Err("Failed to analyze manifest"), trace |-> t4]
    ELSE
    LET t5 == Append(t4, <<"Runtime::new">>) IN
    IF ~runtime_ok THEN [result |-> Err("RuntimeError"), trace |-> t5]
    ELSE
    LET bound == CreateCtxWithMdl(ctx, analyzed_mdl.v)
        t6 == Append(t5, <<"create_ctx_with_mdl">>)
    IN
    IF bound.outcome # "ok" THEN [result |-> Err(bound.error), trace |-> t6]
    ELSE
    LET registered == RegisterAll(bound.v, remote_functions, <<>>)
        t7 == t6 \o registered.registered
    IN
    IF registered.outcome # "ok"
    THEN [result |-> Err(registered.error), trace |-> t7]
    ELSE [result |-> Ok(Constructed(registered.v, analyzed_mdl.v, remote_functions)),
          trace |-> t7]

New(mdl_base64, remote_functions_path, runtime_ok) ==
    LET read == ReadRemoteFunctionList(remote_functions_path)
        t1 == << <<"read_remote_function_list">> >>
    IN
    IF read.outcome # "ok" THEN [result |-> Err(read.error), trace |-> t1]
    ELSE
    LET remote_functions == [i \in 1..Len(read.v) |-> FromPy(read.v[i])]
        ctx == SessionContextNew
        t2 == Append(t1, <<"SessionContext::new">>)
    IN
    IF ~mdl_base64.some
    THEN [result |-> Ok(Constructed(ctx, DefaultMdl, remote_functions)), trace |-> t2]
    ELSE
    LET manifest == ToManifest(mdl_base64.v)
        t3 == Append(t2, <<"to_manifest">>)
    IN
    IF manifest.outcome # "ok" THEN [result |-> Err(manifest.error), trace |-> t3]
    ELSE
    LET analyzed_mdl == Analyze(manifest.v)
        t4 == Append(t3, <<"analyze">>)
    IN
    IF analyzed_mdl.outcome # "ok"
    THEN [result |-> Err("Failed to analyze manifest"), trace |-> t4]
    ELSE
    LET t5 == Append(t4, <<"Runtime::new">>) IN
    IF ~runtime_ok THEN [result |-> Err("RuntimeError"), trace |-> t5]
    ELSE
    LET bound == CreateCtxWithMdl(ctx, analyzed_mdl.v)
        t6 == Append(t5, <<"create_ctx_with_mdl">>)
    IN
    IF bound.outcome # "ok" THEN [result |-> Err(bound.error), trace |-> t6]
    ELSE
    LET registered == RegisterAll(bound.v, remote_functions, <<>>)
        t7 == t6 \o registered.registered
    IN
    IF registered.outcome # "ok"
    THEN [result |-> Err(registered.error), trace |-> t7]
    ELSE [result |-> Ok(Constructed(registered.v, analyzed_mdl.v, remote_functions)),
          trace |-> t7]

\* impl Default for PySessionContext
Default == Constructed(SessionContextNew, DefaultMdl, <<>>)

(***************************************************************************)
(* get_available_functions                                                 *)
(***************************************************************************)
\* .map(|f| (f.name.clone(), f.clone().into())).collect::<HashMap<..>>():
\* of several remote functions with one name, the last one stays
CollectRemote(remote_functions) ==
    [n \in {remote_functions[i].name : i \in 1..Len(remote_functions)} |->
        LET last == CHOOSE i \in 1..Len(remote_functions) :
                        /\ remote_functions[i].name = n
                        /\ \A j \in 1..Len(remote_functions) :
                               remote_functions[j].name = n => j <= i
        IN IntoPy(remote_functions[last])]

\* the entry inserted for a name found only in the engine session
Discovered(function_type, name) ==
    [function_type |-> function_type,
     name |-> name,
     return_type |-> None,
     param_names |-> None,
     param_types |-> None,
     description |-> None]

\* one for_each over a kind's registry: Entry::Occupied keeps, Vacant inserts
ScanKind(builder, functions, function_type) ==
    [n \in DOMAIN builder \cup DOMAIN functions |->
        IF n \in DOMAIN builder THEN builder[n] ELSE Discovered(function_type, n)]

GetAvailableFunctionsWindowFirst(this) ==
    ScanKind(ScanKind(ScanKind(CollectRemote(this.remote_functions),
                               this.ctx.window, "window"),
                      this.ctx.aggregate, "aggregate"),
             this.ctx.scalar, "scalar")

\* the builder map at line 191: remote functions, then scalar, aggregate, window
GetAvailableFunctions(this) ==
    ScanKind(ScanKind(ScanKind(CollectRemote(this.remote_functions),
                               this.ctx.scalar, "scalar"),
                      this.ctx.aggregate, "aggregate"),
             this.ctx.window, "window")

Values(map) == {map[n] : n \in DOMAIN map}

\* builder.values().cloned().collect(): every value once, in the hash map's
\* iteration order, which is unspecified
ValueOrders(map) ==
    {order \in [1..Cardinality(DOMAIN map) -> Values(map)] :
        \A value \in Values(map) : \E i \in DOMAIN order : order[i] = value}

(***************************************************************************)
(* transform_sql                                                           *)
(***************************************************************************)
\* mdl::transform_sql(mdl, remote_functions, sql): the engine's planner; it
\* succeeds with the planned SQL or fails, and is given no &mut of the caller
MdlTransformSql(mdl, remote_functions, sql, planned) ==
    IF planned THEN Ok([kind |-> "planned", of |-> sql, mdl |-> mdl])
    ELSE Err("SqlTransformError")

(***************************************************************************)
(* Inputs.                                                                 *)
(***************************************************************************)
SeqsUpTo(S, n) == UNION {[1..m -> S] : m \in 0..n}

\* numeric literal tokens: digits with at most one decimal point
LitChars == {"0", "2", "."}

LitTexts ==
    {s \in SeqsUpTo(LitChars, MaxLitLen) :
        /\ \E i \in DOMAIN s : s[i] # "."
        /\ Cardinality({i \in DOMAIN s : s[i] = "."}) <= 1}

LimitExprs ==
    {Number(n, is) : n \in LitTexts, is \in BOOLEAN} \cup {OtherExpr("$1")}

QueryLimits == {None} \cup {Some(e) : e \in LimitExprs}

Queries ==
    {Query(l, <<>>) : l \in QueryLimits}
    \cup {Query(l, <<Query(m, <<>>)>>) : l \in QueryLimits, m \in QueryLimits}

Statements ==
    {StatementQuery(q) : q \in Queries}
    \cup {StatementExplain(StatementQuery(q)) : q \in Queries}
    \cup {StatementInsert(q) : q \in Queries}
    \cup {StatementDrop}

\* the statements of texts that hold two statements
PairStatements ==
    {StatementQuery(Query(None, <<>>)),
     StatementQuery(Query(Some(Number(<<"2">>, FALSE)), <<>>)),
     StatementDrop}

Styles == {"canonical", "reformatted"}

SqlTexts ==
    {Unparseable}
    \cup {SqlText(stmts, style) :
            stmts \in {<<>>} \cup {<<s>> : s \in Statements}
                      \cup {<<s, t>> : s \in PairStatements, t \in PairStatements},
            style \in Styles}

Ceilings == {None} \cup {Some(c) : c \in 0..MaxCeiling}

\* the texts and ceilings of calls on a constructed context
SessionSqlTexts ==
    {Unparseable,
     SqlText(<<StatementQuery(Query(Some(Number(<<"2">>, FALSE)), <<>>))>>, "reformatted"),
     SqlText(<<StatementQuery(Query(Some(Number(<<"2", ".">>, FALSE)), <<>>))>>, "canonical"),
     SqlText(<<StatementDrop, StatementDrop>>, "canonical")}

SessionCeilings == {None, Some(1)}

Manifests == {"not_base64", "invalid_manifest", "unbindable_manifest", "m1"}

MdlArgs == {None} \cup {Some(m) : m \in Manifests}

\* a row of the CSV file, deserialized
PyRow(function_type, name, return_type) ==
    [function_type |-> function_type,
     name |-> name,
     return_type |-> Some(return_type),
     param_names |-> IF function_type = "scalar" THEN Some("x") ELSE None,
     param_types |-> IF function_type = "scalar" THEN Some("int") ELSE None,
     description |-> IF return_type = "int" THEN Some("doc") ELSE None]

RowResults ==
    {Err("malformed row")}
    \cup {Ok(PyRow(t, n, r)) : t \in {"scalar", "aggregate", "window"},
                               n \in {"add_two", "first_value"},
                               r \in {"int", "bogus"}}

PathArgs ==
    {None, Some([readable |-> FALSE, rows |-> <<>>])}
    \cup {Some([readable |-> TRUE, rows |-> rows]) : rows \in SeqsUpTo(RowResults, MaxRows)}

(***************************************************************************)
(* The state machine.                                                      *)
(***************************************************************************)
NoContext == [built |-> FALSE]
NotConstructed == [done |-> FALSE]
NoCall == [op |-> "none"]

Init ==
    /\ self = NoContext
    /\ construction = NotConstructed
    /\ call = NoCall

\* SessionContext(mdl_base64, remote_functions_path)
NewCall(mdl_base64, remote_functions_path, runtime_ok) ==
    /\ ~construction.done
    /\ LET new == New(mdl_base64, remote_functions_path, runtime_ok) IN
       /\ self' = IF new.result.outcome = "ok" THEN new.result.v ELSE NoContext
       /\ construction' =
              [done |-> TRUE,
               mdl_base64 |-> mdl_base64,
               remote_functions_path |-> remote_functions_path,
               result |-> new.result,
               trace |-> new.trace]
    /\ UNCHANGED call

TransformSqlCallRegistering(sql, planned) ==
    /\ self.built
    /\ call' = [op |-> "transform_sql", sql |-> sql,
                result |-> MdlTransformSql(self.mdl, self.remote_functions, sql, planned)]
    /\ self' = [self EXCEPT !.ctx.scalar = Insert(@, "transform_sql", Builtin)]
    /\ UNCHANGED construction

\* transform_sql(&self, sql)
TransformSqlCall(sql, planned) ==
    /\ self.built
    /\ call' = [op |-> "transform_sql", sql |-> sql,
                result |-> MdlTransformSql(self.mdl, self.remote_functions, sql, planned)]
    /\ UNCHANGED <<self, construction>>

\* get_available_functions(&self)
GetAvailableFunctionsCall ==
    /\ self.built
    /\ \E order \in ValueOrders(GetAvailableFunctions(self)) :
           call' = [op |-> "get_available_functions", result |-> Ok(order)]
    /\ UNCHANGED <<self, construction>>

\* pushdown_limit(&self, sql, limit)
PushdownLimitCall(sql, limit) ==
    /\ self.built
    /\ call' = [op |-> "pushdown_limit", sql |-> sql, limit |-> limit,
                result |-> PushdownLimit(sql, limit)]
    /\ UNCHANGED <<self, construction>>

Next ==
    \/ \E mdl_base64 \in MdlArgs, path \in PathArgs, runtime_ok \in BOOLEAN :
           NewCall(mdl_base64, path, runtime_ok)
    \/ \E sql \in SessionSqlTexts, planned \in BOOLEAN : TransformSqlCall(sql, planned)
    \/ GetAvailableFunctionsCall
    \/ \E sql \in SessionSqlTexts, limit \in SessionCeilings : PushdownLimitCall(sql, limit)

Spec == Init /\ [][Next]_vars

\* pushdown_limit as a function of its arguments: every text and ceiling is a
\* call waiting on a default context, and the one step is the call returning
InitPushdown ==
    /\ self = Default
    /\ construction = NotConstructed
    /\ call \in {[op |-> "pushdown_limit", sql |-> sql, limit |-> limit,
                  result |-> Pending] : sql \in SqlTexts, limit \in Ceilings}

NextPushdown ==
    /\ call.result = Pending
    /\ PushdownLimitCall(call.sql, call.limit)

SpecPushdown == InitPushdown /\ [][NextPushdown]_vars

(***************************************************************************)
(* Properties of pushdown_limit (checked under SpecPushdown).              *)
(***************************************************************************)
\* the call returned rewritten SQL for a supplied ceiling
Rewritten ==
    /\ call.op = "pushdown_limit"
    /\ call.limit.some
    /\ call.result.outcome = "ok"

InStatement == call.sql.stmts[1]
OutStatement == call.result.v.stmts[1]

\* the query blocks of a query, outermost first
RECURSIVE QueryBlocks(_)
QueryBlocks(q) ==
    <<q>> \o (IF q.subquery = <<>> THEN <<>> ELSE QueryBlocks(q.subquery[1]))

\* the query blocks of a statement, outermost first
RECURSIVE StatementBlocks(_)
StatementBlocks(stmt) ==
    CASE stmt.type = "Query" -> QueryBlocks(stmt.query)
      [] stmt.type = "Explain" -> StatementBlocks(stmt.statement)
      [] stmt.type = "Insert" -> QueryBlocks(stmt.source)
      [] OTHER -> <<>>

\* whether the outermost block of a statement is the query of a query statement
RECURSIVE IsQueryStatement(_)
IsQueryStatement(stmt) ==
    CASE stmt.type = "Query" -> TRUE
      [] stmt.type = "Explain" -> IsQueryStatement(stmt.statement)
      [] OTHER -> FALSE

\* the block's LIMIT is the numeric literal of value c
HasLimit(q, c) ==
    /\ q.limit.some
    /\ q.limit.v.k = "number"
    /\ ParseUsize(q.limit.v.n) = Ok(c)

\* the block's LIMIT is a numeric literal of a value above c
LimitAbove(q, c) ==
    /\ q.limit.some
    /\ q.limit.v.k = "number"
    /\ ParseUsize(q.limit.v.n).outcome = "ok"
    /\ ParseUsize(q.limit.v.n).v > c

\* a block without LIMIT, or with a literal LIMIT above c, now has LIMIT c
Capped(in, out, c) ==
    /\ ~in.limit.some => HasLimit(out, c)
    /\ LimitAbove(in, c) => HasLimit(out, c)

\* C1 as stated: after pushdown_limit(sql, C) returns, every query block of the
\* statement, nested subqueries included, that had no LIMIT or a literal LIMIT
\* above C has LIMIT C.
C1_EveryBlockCapped ==
    Rewritten =>
        LET in == StatementBlocks(InStatement)
            out == StatementBlocks(OutStatement)
        IN /\ Len(out) = Len(in)
           /\ \A i \in DOMAIN in : Capped(in[i], out[i], call.limit.v)

\* C1 amended: after pushdown_limit(sql, C) returns, the query of the query
\* statement the traversal visits (the top-level statement, or the one an
\* EXPLAIN wraps) has LIMIT C if it had no LIMIT or a literal LIMIT above C;
\* every other query block (a nested subquery, the source query of an INSERT)
\* keeps the LIMIT clause it had.
C1_OnlyStatementQueryCapped ==
    Rewritten =>
        LET in == StatementBlocks(InStatement)
            out == StatementBlocks(OutStatement)
        IN /\ Len(out) = Len(in)
           /\ \A i \in DOMAIN in :
                  IF i = 1 /\ IsQueryStatement(InStatement)
                  THEN Capped(in[i], out[i], call.limit.v)
                  ELSE out[i].limit = in[i].limit

\* a query without LIMIT over a subquery without LIMIT was rewritten: the outer
\* block got the ceiling, the subquery did not
C1_Witness ==
    /\ Rewritten
    /\ InStatement = StatementQuery(Query(None, <<Query(None, <<>>)>>))
    /\ call.limit = Some(3)
    /\ HasLimit(OutStatement.query, 3)
    /\ ~OutStatement.query.subquery[1].limit.some

\* C2: for a single query statement and a supplied ceiling C, the top-level
\* LIMIT of the returned statement is C when there was none, min(L, C) when it
\* was the literal L (L itself, untouched, when L <= C), and the original
\* expression when it was not a literal.
C2_TopLevelLimit ==
    (Rewritten /\ InStatement.type = "Query") =>
        LET in == InStatement.query.limit
            out == OutStatement.query.limit
            c == call.limit.v
        IN /\ OutStatement.type = "Query"
           /\ ~in.some => out = Some(Number(UsizeToString(c), FALSE))
           /\ (in.some /\ in.v.k = "number") =>
                  LET l == ParseUsize(in.v.n) IN
                  /\ l.outcome = "ok"
                  /\ HasLimit(OutStatement.query, IF l.v < c THEN l.v ELSE c)
                  /\ l.v <= c => out = in
                  /\ l.v > c => out.v.n = UsizeToString(c)
           /\ (in.some /\ in.v.k # "number") => out = in

\* LIMIT 2 under ceiling 1 came back as LIMIT 1
C2_Witness ==
    /\ Rewritten
    /\ InStatement = StatementQuery(Query(Some(Number(<<"2">>, FALSE)), <<>>))
    /\ call.limit = Some(1)
    /\ OutStatement.query.limit = Some(Number(<<"1">>, FALSE))

\* C3: with no ceiling, pushdown_limit never fails and returns its input text
\* byte for byte, whatever the text is.
C3_NoCeilingVerbatim ==
    (call.op = "pushdown_limit" /\ ~call.limit.some /\ call.result # Pending) =>
        call.result = Ok(call.sql)

\* unparseable text went through the call without a ceiling
C3_Witness ==
    /\ call.op = "pushdown_limit"
    /\ ~call.limit.some
    /\ call.sql = Unparseable
    /\ call.result = Ok(Unparseable)

\* C4: with a ceiling, text that parses to zero statements or to more than one
\* fails with an error; nothing is returned for the first statement alone.
C4_NotOneStatementFails ==
    (/\ call.op = "pushdown_limit"
     /\ call.limit.some
     /\ call.result # Pending
     /\ call.sql.kind = "sql"
     /\ Len(call.sql.stmts) # 1) =>
        call.result = Err("Only one statement is allowed")

\* two statements and a ceiling: the call failed
C4_Witness ==
    /\ call.op = "pushdown_limit"
    /\ call.limit = Some(5)
    /\ call.sql.kind = "sql"
    /\ Len(call.sql.stmts) = 2
    /\ call.result.outcome = "err"

\* C10: with a ceiling supplied, pushdown_limit ends by returning rewritten SQL
\* or by returning an error to the caller; it never aborts abnormally.
C10_ReturnsOrErrors ==
    (call.op = "pushdown_limit" /\ call.limit.some /\ call.result # Pending) =>
        call.result.outcome \in {"ok", "err"}

(***************************************************************************)
(* Properties of the constructed context (checked under Spec).             *)
(***************************************************************************)
RemoteNames(this) ==
    {this.remote_functions[i].name : i \in 1..Len(this.remote_functions)}

EngineNames(this) ==
    DOMAIN this.ctx.scalar \cup DOMAIN this.ctx.aggregate \cup DOMAIN this.ctx.window

\* the first kind, scalar then aggregate then window, the engine has the name in
FirstKind(this, name) ==
    IF name \in DOMAIN this.ctx.scalar THEN "scalar"
    ELSE IF name \in DOMAIN this.ctx.aggregate THEN "aggregate"
    ELSE "window"

\* the entry reports the remote function f
ReportsRemote(entry, f) ==
    /\ entry.name = f.name
    /\ entry.function_type = FunctionTypeToString(f.function_type)
    /\ entry.return_type = Some(f.return_type)
    /\ entry.param_names = f.param_names
    /\ entry.param_types = f.param_types
    /\ entry.description = f.description

\* C5: get_available_functions returns one entry per name of the union of the
\* remote catalog and the engine's registered functions; a remote name reports
\* a remote-catalog entry of that name, any other name reports the first kind
\* (scalar, aggregate, window) the engine has it under, all else unknown.
C5_RemotePriorityMerge ==
    call.op = "get_available_functions" =>
        LET entries == call.result.v IN
        /\ {entries[i].name : i \in DOMAIN entries} = RemoteNames(self) \cup EngineNames(self)
        /\ \A i, j \in DOMAIN entries : entries[i].name = entries[j].name => i = j
        /\ \A i \in DOMAIN entries :
               IF entries[i].name \in RemoteNames(self)
               THEN \E k \in DOMAIN self.remote_functions :
                        ReportsRemote(entries[i], self.remote_functions[k])
               ELSE /\ entries[i].function_type = FirstKind(self, entries[i].name)
                    /\ entries[i].return_type = None
                    /\ entries[i].param_names = None
                    /\ entries[i].param_types = None
                    /\ entries[i].description = None

\* the remote catalog names "first_value", which the engine has too, and the
\* listing reports it as the remote scalar beside the engine's own "abs"
C5_Witness ==
    /\ call.op = "get_available_functions"
    /\ \E k \in DOMAIN self.remote_functions :
           /\ self.remote_functions[k].name = "first_value"
           /\ self.remote_functions[k].function_type = "Scalar"
    /\ "first_value" \in DOMAIN self.ctx.aggregate
    /\ \E i, j \in DOMAIN call.result.v :
           /\ call.result.v[i].name = "first_value"
           /\ call.result.v[i].function_type = "scalar"
           /\ call.result.v[j] = Discovered("scalar", "abs")

Events(trace) == {trace[i] : i \in DOMAIN trace}

UndecodableManifest ==
    /\ construction.done
    /\ construction.mdl_base64 = Some("not_base64")

\* C6 as stated: construction with an undecodable manifest fails with the
\* manifest decode error, and no engine session has been constructed by then.
C6_DecodeErrorBeforeAnySession ==
    UndecodableManifest =>
        /\ construction.result = Err("ManifestDecodeError")
        /\ <<"SessionContext::new">> \notin Events(construction.trace)

\* C6 amended: construction with an undecodable manifest fails and yields no
\* context: with the CSV error when the remote-function file cannot be read
\* (it is read first), otherwise with the manifest decode error.  When the
\* decode error is returned the bare engine session has been constructed (and
\* is dropped), but no model-bound session has been created and no remote
\* function registered.
C6_DecodeErrorBeforeModelSession ==
    UndecodableManifest =>
        /\ ~self.built
        /\ LET path == construction.remote_functions_path IN
           IF path.some /\ ~path.v.readable
           THEN /\ construction.result = Err("CsvError")
                /\ construction.trace = << <<"read_remote_function_list">> >>
           ELSE /\ construction.result = Err("ManifestDecodeError")
                /\ construction.trace = << <<"read_remote_function_list">>,
                                           <<"SessionContext::new">>,
                                           <<"to_manifest">> >>

\* an undecodable manifest beside a readable file of two functions
C6_Witness ==
    /\ UndecodableManifest
    /\ construction.remote_functions_path.some
    /\ Len(construction.remote_functions_path.v.rows) = 2
    /\ construction.result = Err("ManifestDecodeError")

\* the pass-through callable registered for f in the session, if any
IsRegistered(ctx, f) ==
    LET functions == CASE f.function_type = "Scalar" -> ctx.scalar
                       [] f.function_type = "Aggregate" -> ctx.aggregate
                       [] f.function_type = "Window" -> ctx.window
    IN /\ f.name \in DOMAIN functions
       /\ functions[f.name].impl = "bypass"
       /\ functions[f.name].name = f.name

\* C7: whenever construction succeeds, with or without a manifest, every remote
\* function of the context's list is registered in its engine session as a
\* pass-through callable of its kind under its name.
C7_RemoteFunctionsRegistered ==
    (construction.done /\ self.built) =>
        \A i \in DOMAIN self.remote_functions :
            IsRegistered(self.ctx, self.remote_functions[i])

\* the remote functions the constructor loaded from its file
Loaded ==
    LET read == ReadRemoteFunctionList(construction.remote_functions_path) IN
    IF read.outcome = "ok" THEN [i \in DOMAIN read.v |-> FromPy(read.v[i])] ELSE <<>>

\* C8: if a loaded remote function declares a return type the engine cannot
\* map, construction fails and yields no context, with or without a manifest.
C8_UnmappableReturnTypeFails ==
    (/\ construction.done
     /\ \E i \in DOMAIN Loaded : MapDataType(Loaded[i].return_type).outcome # "ok") =>
        /\ construction.result.outcome = "err"
        /\ ~self.built

\* C9: after any sequence of transform_sql, get_available_functions and
\* pushdown_limit calls, failed or not, the context's model, remote-function
\* list and engine registry are those the constructor returned, and so is what
\* get_available_functions reports.
C9_CallsLeaveContextUnchanged ==
    (construction.done /\ construction.result.outcome = "ok") =>
        /\ self = construction.result.v
        /\ Values(GetAvailableFunctions(self))
               = Values(GetAvailableFunctions(construction.result.v))

\* a context holding a remote function, after a pushdown_limit call that
\* panicked
C9_Witness ==
    /\ construction.done
    /\ self.built
    /\ self.remote_functions # <<>>
    /\ call.op = "pushdown_limit"
    /\ call.result = Panic

====
